---- MODULE Spec2Model ----
(***************************************************************************)
(* Model of microscope/cameras/ids.py: the IDSuEye camera session (power   *)
(* state, exposure cache, binning, acquisition, temperature decode) on top *)
(* of the libueye driver.  The driver is an environment: every status it   *)
(* returns is drawn with \E in the action that issues the command.         *)
(*                                                                         *)
(* Exposure values are integers: one model unit of the cache is a second,  *)
(* the driver speaks milliseconds (MSEC_PER_SEC model units per second).   *)
(* Temperatures are integers in sixteenths of a degree.                    *)
(***************************************************************************)
EXTENDS Integers, Sequences, FiniteSets, TLC

VARIABLES cam, hw, last, wait

vars == <<cam, hw, last, wait>>

\* ------------------------------------------------------------------ bounds
\* largest exposure (seconds) the modelled hardware range reaches
MaxExposure == 2
\* binning factors 1..MaxBin are requested, besides 7
MaxBin == 2

\* ------------------------------------------------------- program constants
MSEC_PER_SEC == 1000
\* width of the wTemperature field (uint16_t)
TEMP_BITS == 16

\* libueye's binning bits (microscope/_wrappers/ueye.py, from ueye.h)
BINNING_2X_VERTICAL == 1
BINNING_2X_HORIZONTAL == 2
BINNING_4X_VERTICAL == 4
BINNING_4X_HORIZONTAL == 8
BINNING_3X_VERTICAL == 16
BINNING_3X_HORIZONTAL == 32
BINNING_5X_VERTICAL == 64
BINNING_5X_HORIZONTAL == 128
BINNING_6X_VERTICAL == 256
BINNING_6X_HORIZONTAL == 512
BINNING_8X_VERTICAL == 1024
BINNING_8X_HORIZONTAL == 2048
BINNING_16X_VERTICAL == 4096
BINNING_16X_HORIZONTAL == 8192
\* number of bits the binning values occupy
BINNING_WIDTH == 14

IS_BINNING_MASK_VERTICAL ==
    BINNING_2X_VERTICAL + BINNING_3X_VERTICAL + BINNING_4X_VERTICAL
    + BINNING_5X_VERTICAL + BINNING_6X_VERTICAL + BINNING_8X_VERTICAL
    + BINNING_16X_VERTICAL

IS_BINNING_MASK_HORIZONTAL ==
    BINNING_2X_HORIZONTAL + BINNING_3X_HORIZONTAL + BINNING_4X_HORIZONTAL
    + BINNING_5X_HORIZONTAL + BINNING_6X_HORIZONTAL + BINNING_8X_HORIZONTAL
    + BINNING_16X_HORIZONTAL

\* libueye's colour modes and status codes
CM_MONO8 == 6
CM_MONO10 == 34
CM_MONO12 == 26
CM_MONO16 == 28
CM_SENSOR_RAW8 == 11
IS_NO_SUCCESS == -1
IS_INVALID_CAMERA_HANDLE == 1

\* ----------------------------------------------------------------- helpers
\* an attribute the object does not have (reading it raises AttributeError)
Unset == <<>>

\* Python's None, as a return value
None == <<>>

Max(a, b) == IF a >= b THEN a ELSE b

Min(a, b) == IF a <= b THEN a ELSE b

RECURSIVE Pow2(_)
Pow2(n) == IF n = 0 THEN 1 ELSE 2 * Pow2(n - 1)

\* a & b and a | b on the low `width` bits (two's complement for a, b < 0)
RECURSIVE BitAndW(_, _, _)
BitAndW(a, b, width) ==
    IF width = 0 THEN 0
    ELSE ((a % 2) * (b % 2)) + 2 * BitAndW(a \div 2, b \div 2, width - 1)

BitAnd(a, b) ==
    BitAndW(a % Pow2(BINNING_WIDTH), b % Pow2(BINNING_WIDTH), BINNING_WIDTH)

BitOr(a, b) == (a + b) - BitAnd(a, b)

\* one driver call in the log of the last operation: the command, the value
\* written with it or read by it (0 when it has none), and whether it succeeded
Cmd(name, data, ok) == [cmd |-> name, data |-> data, ok |-> ok]

\* the result of a method: the state it leaves, the exception it raised
\* ("ok" when none), the driver calls it made, and its return value
Outcome(c, h, err, cmds, ret) ==
    [cam |-> c, hw |-> h, err |-> err, cmds |-> cmds, ret |-> ret, msg |-> ""]

\* the result of a method that raises err(msg), for the raises whose message
\* a caller may have to tell apart
Failure(c, h, err, msg, cmds) ==
    [cam |-> c, hw |-> h, err |-> err, cmds |-> cmds, ret |-> None,
     msg |-> msg]

\* the driver serves a command only on an open handle that is not in standby
HwReady(h) == h.open /\ ~h.standby

\* -------------------------------------------------------- power state machine
\* ueye.CameraStatus(handle, STANDBY_SUPPORTED, GET_STATUS) == TRUE
supports_standby(h, sup) == h.open /\ sup

\* _on_enable with the driver answering sup (support) and st (status)
on_enable(c, h, sup, st) ==
    LET q == Cmd("STANDBY_SUPPORTED", 0, supports_standby(h, sup)) IN
    IF supports_standby(h, sup)
    THEN LET ok == h.open /\ st
             x == Cmd("STANDBY_EXIT", 0, ok) IN
         IF ~ok
         THEN Outcome(c, h, "RuntimeError", <<q, x>>, None)
         ELSE Outcome([c EXCEPT !.enabled = TRUE],
                      [h EXCEPT !.standby = FALSE], "ok", <<q, x>>, None)
    ELSE Outcome(c, h, "RuntimeError", <<q>>, None)

\* _on_disable with a plausible slip: the flag is cleared before the status
\* of the standby command is looked at
on_disable_flag_first(c, h, sup, st) ==
    LET q == Cmd("STANDBY_SUPPORTED", 0, supports_standby(h, sup)) IN
    IF supports_standby(h, sup)
    THEN LET ok == h.open /\ st
             x == Cmd("STANDBY_ENTER", 0, ok) IN
         IF ~ok
         THEN Outcome([c EXCEPT !.enabled = FALSE], h, "RuntimeError",
                      <<q, x>>, None)
         ELSE Outcome([c EXCEPT !.enabled = FALSE],
                      [h EXCEPT !.standby = TRUE], "ok", <<q, x>>, None)
    ELSE Outcome(c, h, "RuntimeError", <<q>>, None)

\* _on_disable with the driver answering sup (support) and st (status)
on_disable(c, h, sup, st) ==
    LET q == Cmd("STANDBY_SUPPORTED", 0, supports_standby(h, sup)) IN
    IF supports_standby(h, sup)
    THEN LET ok == h.open /\ st
             x == Cmd("STANDBY_ENTER", 0, ok) IN
         IF ~ok
         THEN Outcome(c, h, "RuntimeError", <<q, x>>, None)
         ELSE Outcome([c EXCEPT !.enabled = FALSE],
                      [h EXCEPT !.standby = TRUE], "ok", <<q, x>>, None)
    ELSE Outcome(c, h, "RuntimeError", <<q>>, None)

\* Device.enable of the base class: runs _on_enable, failures reach the caller
super_enable(c, h, sup, st) == on_enable(c, h, sup, st)

\* IDSuEye.enable with a plausible slip: the flag is set whether or not
\* super().enable() raised
enable_flag_always(c, h, sup, st) ==
    LET r == super_enable(c, h, sup, st) IN
    [r EXCEPT !.cam.enabled = TRUE]

\* IDSuEye.enable: super().enable(), then self.enabled = True
enable(c, h, sup, st) ==
    LET r == super_enable(c, h, sup, st) IN
    IF r.err # "ok" THEN r
    ELSE [r EXCEPT !.cam.enabled = TRUE]

\* Device.disable of the base class: runs _on_disable
disable(c, h, sup, st) == on_disable(c, h, sup, st)

\* _read_sensor_shape: (nMaxWidth, nMaxHeight) of GetSensorInfo
read_sensor_shape(c, h, st) ==
    LET ok == HwReady(h) /\ st
        x == Cmd("GET_SENSOR_INFO", 0, ok) IN
    IF ~ok THEN Outcome(c, h, "RuntimeError", <<x>>, None)
    ELSE Outcome(c, h, "ok", <<x>>, h.sensor)

\* ------------------------------------------------------------- exposure time
\* c_double(secs * 1000): seconds of the cache to the driver's milliseconds
ToMsec(secs) == secs * MSEC_PER_SEC

\* time_msec.value / 1000: the driver's milliseconds to seconds
ToSec(msec) == msec \div MSEC_PER_SEC

\* _read_exposure_time: is_Exposure(GET_EXPOSURE) answers the camera's
\* exposure in milliseconds
read_exposure_time(c, h, st) ==
    LET ok == HwReady(h) /\ st
        x == Cmd("GET_EXPOSURE", IF ok THEN h.exposure ELSE 0, ok) IN
    IF ~ok THEN Outcome(c, h, "RuntimeError", <<x>>, None)
    ELSE Outcome(c, h, "ok", <<x>>, ToSec(h.exposure))

\* _read_exposure_range: is_Exposure(GET_EXPOSURE_RANGE), (min, max)
read_exposure_range(c, h, st) ==
    LET ok == HwReady(h) /\ st
        x == Cmd("GET_EXPOSURE_RANGE", 0, ok) IN
    IF ~ok THEN Outcome(c, h, "RuntimeError", <<x>>, None)
    ELSE Outcome(c, h, "ok", <<x>>,
                 <<ToSec(h.range[1]), ToSec(h.range[2])>>)

\* get_exposure_time with the change its XXX comment weighs: the value is
\* read from the camera each time
get_exposure_time_reread(c, h) == read_exposure_time(c, h, TRUE)

\* get_exposure_time: return self._exposure_time
get_exposure_time(c, h) ==
    IF c.exposure_time = Unset
    THEN Outcome(c, h, "AttributeError", <<>>, None)
    ELSE Outcome(c, h, "ok", <<>>, c.exposure_time[1])

\* the clamp of line 225
clamp(value, range) == Max(Min(value, range[2]), range[1])

\* the assert of line 229 lets the call go on
assert_passes(secs) == secs = 0

\* line 235 with a plausible slip: the cache takes the clamped request
store_clamped(secs, readback) == secs

\* what line 235 stores in the cache
stored_exposure(secs, readback) == readback

\* set_exposure_time(value): rep.wst is the status of the write, rep.msec the
\* exposure an accepted write leaves in the camera and rep.rst the status of
\* the read back
set_exposure_time(c, h, value, rep) ==
    IF c.exposure_range = Unset
    THEN Outcome(c, h, "AttributeError", <<>>, None)
    ELSE
    LET secs == clamp(value, c.exposure_range) IN
    IF ~assert_passes(secs)
    THEN Outcome(c, h, "AssertionError", <<>>, None)
    ELSE
    LET ok == HwReady(h) /\ rep.wst
        w == Cmd("SET_EXPOSURE", ToMsec(secs), ok) IN
    IF ~ok
    THEN Outcome(c, h, "RuntimeError", <<w>>, None)
    ELSE
    LET h2 == [h EXCEPT !.exposure = rep.msec]
        r == read_exposure_time(c, h2, rep.rst) IN
    IF r.err # "ok"
    THEN Outcome(c, h2, r.err, <<w>> \o r.cmds, None)
    ELSE Outcome([c EXCEPT !.exposure_time = <<stored_exposure(secs, r.ret)>>],
                 h2, "ok", <<w>> \o r.cmds, None)

\* ------------------------------------------------------------------- binning
BITS_TO_HORIZONTAL_BINNING ==
    (0 :> 1) @@ (BINNING_2X_HORIZONTAL :> 2) @@ (BINNING_3X_HORIZONTAL :> 3)
    @@ (BINNING_4X_HORIZONTAL :> 4) @@ (BINNING_5X_HORIZONTAL :> 5)
    @@ (BINNING_6X_HORIZONTAL :> 6) @@ (BINNING_8X_HORIZONTAL :> 8)
    @@ (BINNING_16X_HORIZONTAL :> 16)

BITS_TO_VERTICAL_BINNING ==
    (0 :> 1) @@ (BINNING_2X_VERTICAL :> 2) @@ (BINNING_3X_VERTICAL :> 3)
    @@ (BINNING_4X_VERTICAL :> 4) @@ (BINNING_5X_VERTICAL :> 5)
    @@ (BINNING_6X_VERTICAL :> 6) @@ (BINNING_8X_VERTICAL :> 8)
    @@ (BINNING_16X_VERTICAL :> 16)

\* {v:k for k, v in d.items()}
Inverted(d) ==
    [v \in {d[k] : k \in DOMAIN d} |-> CHOOSE k \in DOMAIN d : d[k] = v]

HORIZONTAL_BINNING_TO_BITS == Inverted(BITS_TO_HORIZONTAL_BINNING)

VERTICAL_BINNING_TO_BITS == Inverted(BITS_TO_VERTICAL_BINNING)

\* the value a driver query returns in place of its answer when it fails
ErrorCode(h) == IF h.open THEN IS_NO_SUCCESS ELSE IS_INVALID_CAMERA_HANDLE

\* the lookup with a plausible slip: only the horizontal factor is looked up
in_tables_h_only(h_bin, v_bin) == h_bin \in DOMAIN HORIZONTAL_BINNING_TO_BITS

\* the try block of lines 260-264 finds both factors
in_tables(h_bin, v_bin) ==
    /\ h_bin \in DOMAIN HORIZONTAL_BINNING_TO_BITS
    /\ v_bin \in DOMAIN VERTICAL_BINNING_TO_BITS

\* the bits of a factor (none for a factor that is in no table)
BitsOf(table, factor) == IF factor \in DOMAIN table THEN table[factor] ELSE 0

\* line 265: binning = h_bits & v_bits
combine(h_bits, v_bits) == BitAnd(h_bits, v_bits)

\* _get_binning
get_binning(c, h) ==
    LET ok == HwReady(h)
        binning == IF ok THEN h.binning ELSE ErrorCode(h)
        x == Cmd("GET_BINNING", 0, ok)
        h_bin == BitAnd(binning, IS_BINNING_MASK_HORIZONTAL)
        v_bin == BitAnd(binning, IS_BINNING_MASK_VERTICAL) IN
    IF h_bin \in DOMAIN BITS_TO_HORIZONTAL_BINNING
       /\ v_bin \in DOMAIN BITS_TO_VERTICAL_BINNING
    THEN Outcome(c, h, "ok", <<x>>,
                 <<BITS_TO_HORIZONTAL_BINNING[h_bin],
                   BITS_TO_VERTICAL_BINNING[v_bin]>>)
    ELSE Outcome(c, h, "KeyError", <<x>>, None)

\* _set_binning(h_bin, v_bin): sup is the supported-binning bitmask the
\* camera reports, bst the status of the binning write, rep the camera's
\* replies to the set_exposure_time it ends with
set_binning(c, h, h_bin, v_bin, sup, bst, rep) ==
    IF ~in_tables(h_bin, v_bin)
    THEN Outcome(c, h, "ValueError", <<>>, None)
    ELSE
    LET binning == combine(BitsOf(HORIZONTAL_BINNING_TO_BITS, h_bin),
                           BitsOf(VERTICAL_BINNING_TO_BITS, v_bin))
        supported == IF HwReady(h) THEN sup ELSE ErrorCode(h)
        g == Cmd("GET_SUPPORTED_BINNING", supported, HwReady(h)) IN
    IF binning # BitAnd(supported, binning)
    THEN Outcome(c, h, "ValueError", <<g>>, None)
    ELSE
    LET ok == HwReady(h) /\ bst
        b == Cmd("SET_BINNING", binning, ok) IN
    IF ~ok
    THEN Outcome(c, h, "RuntimeError", <<g, b>>, None)
    ELSE
    LET h2 == [h EXCEPT !.binning = binning] IN
    IF c.exposure_time = Unset
    THEN Outcome(c, h2, "AttributeError", <<g, b>>, None)
    ELSE
    LET r == set_exposure_time(c, h2, c.exposure_time[1], rep) IN
    Outcome(r.cam, r.hw, r.err, <<g, b>> \o r.cmds,
            IF r.err = "ok" THEN TRUE ELSE None)

\* --------------------------------------------------------------- acquisition
COLORMODE_TO_N_BITS ==
    (CM_MONO10 :> 16) @@ (CM_MONO12 :> 16) @@ (CM_MONO16 :> 16)
    @@ (CM_MONO8 :> 8)

\* _get_sensor_shape
get_sensor_shape(c) == c.sensor_shape

\* _get_bits_per_pixel with a plausible slip: a colour mode that is not in
\* the table counts as 16 bits (dict.get with a default)
get_bits_per_pixel_default(c, h, cm) ==
    LET ok == HwReady(h)
        colormode == IF ok THEN cm ELSE ErrorCode(h)
        x == Cmd("GET_COLOR_MODE", colormode, ok) IN
    IF colormode \in DOMAIN COLORMODE_TO_N_BITS
    THEN Outcome(c, h, "ok", <<x>>, COLORMODE_TO_N_BITS[colormode])
    ELSE Outcome(c, h, "ok", <<x>>, 16)

\* _get_bits_per_pixel: is_SetColorMode(IS_GET_COLOR_MODE) and the table
get_bits_per_pixel(c, h, cm) ==
    LET ok == HwReady(h)
        colormode == IF ok THEN cm ELSE ErrorCode(h)
        x == Cmd("GET_COLOR_MODE", colormode, ok) IN
    IF colormode \in DOMAIN COLORMODE_TO_N_BITS
    THEN Outcome(c, h, "ok", <<x>>, COLORMODE_TO_N_BITS[colormode])
    ELSE Failure(c, h, "RuntimeError", "failed to get colormode", <<x>>)

\* np.zeros(im_size, dtype): the buffer acquire() allocates
Buffer(im_size, bitspixel) ==
    [shape |-> im_size, bits |-> IF bitspixel = 8 THEN 8 ELSE 16]

\* what acquire() hands back when every step succeeded, as the sequence of
\* the buffers returned: the function ends after the status check of
\* is_FreezeVideo without a return statement, so the caller gets None
acquire_result(buffer) == None

\* lines 343, 347 with a plausible slip: the message of the allocation
\* failure pasted into the check of is_SetImageMem
acquire_message_pasted(step) ==
    CASE step = "ALLOC_IMAGE_MEM" -> "failed to alloc image"
      [] step = "SET_IMAGE_MEM" -> "failed to alloc image"
      [] step = "FREEZE_VIDEO" -> "failed to acquire image"

\* the message of the RuntimeError acquire() raises when the driver call
\* `step` fails (lines 343, 347, 350)
acquire_message(step) ==
    CASE step = "ALLOC_IMAGE_MEM" -> "failed to alloc image"
      [] step = "SET_IMAGE_MEM" -> "failed to set image mem"
      [] step = "FREEZE_VIDEO" -> "failed to acquire image"

\* acquire(): cm is the colour mode the camera reports; ast, sst, fst are
\* the statuses of is_AllocImageMem, is_SetImageMem and is_FreezeVideo
acquire(c, h, cm, ast, sst, fst) ==
    LET im_size == get_sensor_shape(c)
        bp == get_bits_per_pixel(c, h, cm) IN
    IF bp.err # "ok" THEN bp
    ELSE
    LET buffer == Buffer(im_size, bp.ret)
        aok == HwReady(h) /\ ast
        a == Cmd("ALLOC_IMAGE_MEM", bp.ret, aok) IN
    IF ~aok
    THEN Failure(c, h, "RuntimeError", acquire_message("ALLOC_IMAGE_MEM"),
                 bp.cmds \o <<a>>)
    ELSE
    LET sok == HwReady(h) /\ sst
        m == Cmd("SET_IMAGE_MEM", 0, sok) IN
    IF ~sok
    THEN Failure(c, h, "RuntimeError", acquire_message("SET_IMAGE_MEM"),
                 bp.cmds \o <<a, m>>)
    ELSE
    LET fok == HwReady(h) /\ fst
        f == Cmd("FREEZE_VIDEO", 0, fok) IN
    IF ~fok
    THEN Failure(c, h, "RuntimeError", acquire_message("FREEZE_VIDEO"),
                 bp.cmds \o <<a, m, f>>)
    ELSE Outcome(c, h, "ok", bp.cmds \o <<a, m, f>>, acquire_result(buffer))

\* abort(): the body is `pass`
abort(c, h) == Outcome(c, h, "ok", <<>>, None)

\* ---------------------------------------------------------------- temperature
\* the masks of lines 309 and 310
INTEGER_PART_MASK == 63
FRACTIONAL_PART_MASK == 15

\* lines 308-311, in sixteenths of a degree:
\* ((-1)**sign) * float(integer_part) + (fractional_part/16.0)
decode_temperature(bits) ==
    LET sign == bits \div Pow2(15)
        integer_part == BitAndW(bits \div Pow2(4), INTEGER_PART_MASK, TEMP_BITS)
        fractional_part == BitAndW(bits, FRACTIONAL_PART_MASK, TEMP_BITS) IN
    (IF sign = 1 THEN -1 ELSE 1) * integer_part * 16 + fractional_part

\* get_sensor_temperature: DeviceInfo, then the decode of wTemperature
get_sensor_temperature(c, h, st, bits) ==
    LET ok == h.open /\ st
        x == Cmd("DEVICE_INFO", 0, ok) IN
    IF ~ok THEN Outcome(c, h, "RuntimeError", <<x>>, None)
    ELSE Outcome(c, h, "ok", <<x>>, decode_temperature(bits))

\* ------------------------------------------------------------------- shutdown
\* _on_shutdown: ExitCamera
on_shutdown(c, h, st) ==
    LET ok == h.open /\ st
        x == Cmd("EXIT_CAMERA", 0, ok) IN
    IF ~ok THEN Outcome(c, h, "RuntimeError", <<x>>, None)
    ELSE Outcome(c, [h EXCEPT !.open = FALSE], "ok", <<x>>, None)

\* --------------------------------------------------------------- construction
\* __init__ from InitCamera on (lines 95-108)
init(c, h, ist, sup1, st1, sup2, st2, sst) ==
    LET x == Cmd("INIT_CAMERA", 0, ist) IN
    IF ~ist THEN Outcome(c, h, "RuntimeError", <<x>>, None)
    ELSE
    LET h1 == [h EXCEPT !.open = TRUE, !.standby = FALSE]
        c1 == [c EXCEPT !.enabled = TRUE]
        d == on_disable(c1, h1, sup1, st1) IN
    IF d.err # "ok" THEN Outcome(c, d.hw, d.err, <<x>> \o d.cmds, None)
    ELSE
    LET e == on_enable(d.cam, d.hw, sup2, st2) IN
    IF e.err # "ok"
    THEN Outcome(c, e.hw, e.err, <<x>> \o d.cmds \o e.cmds, None)
    ELSE
    LET s == read_sensor_shape(e.cam, e.hw, sst) IN
    IF s.err # "ok"
    THEN Outcome(c, s.hw, s.err, <<x>> \o d.cmds \o e.cmds \o s.cmds, None)
    ELSE Outcome([e.cam EXCEPT !.sensor_shape = s.ret, !.phase = "open"],
                 s.hw, "ok", <<x>> \o d.cmds \o e.cmds \o s.cmds, None)

\* the caller fills the exposure cache and range from the camera, as the
\* lines 109-110 would: _read_exposure_time() and _read_exposure_range()
read_exposure_cache(c, h, tst, rst) ==
    LET t == read_exposure_time(c, h, tst) IN
    IF t.err # "ok" THEN t
    ELSE
    LET r == read_exposure_range(c, h, rst) IN
    IF r.err # "ok" THEN Outcome(c, h, r.err, t.cmds \o r.cmds, None)
    ELSE Outcome([c EXCEPT !.exposure_time = <<t.ret>>,
                           !.exposure_range = r.ret],
                 h, "ok", t.cmds \o r.cmds, None)

\* ------------------------------------------------------ the modelled hardware
\* exposure ranges (seconds) the camera reports: one that starts at zero, the
\* case the assert of set_exposure_time is there for, and one that does not
ExposureRanges == {<<0, MaxExposure - 1>>, <<1, MaxExposure>>}

\* exposure requests: below, inside and above either range
ExposureRequests == 0 .. MaxExposure + 1

SensorShapes == {<<4, 3>>}

ColorModes == {CM_MONO8, CM_MONO12, CM_SENSOR_RAW8}

\* supported-binning bitmasks: none, 2x both ways, everything
SupportedMasks ==
    {0, BINNING_2X_HORIZONTAL + BINNING_2X_VERTICAL,
     IS_BINNING_MASK_HORIZONTAL + IS_BINNING_MASK_VERTICAL}

\* binning factors requested: table members and 7, which is in no table
BinningRequests == (1 .. MaxBin) \cup {7}

\* packed temperature readings: sign, filler bits 14..11, integer part,
\* fractional nibble
TemperatureReadings ==
    {s * Pow2(15) + f * Pow2(11) + i * Pow2(4) + n :
        s \in {0, 1}, f \in {0, 15}, i \in {0, 5, 64, 127}, n \in {0, 8}}

\* exposures (msec) the camera may report: any in its range
Exposures(h) == {ToMsec(q) : q \in ToSec(h.range[1]) .. ToSec(h.range[2])}

\* the camera's replies to one set_exposure_time: the write is rejected, or
\* it is accepted, leaves some exposure of the range in the camera, and the
\* read back fails or succeeds
ExposureReplies(h) ==
    {[wst |-> FALSE, rst |-> FALSE, msec |-> 0]}
    \cup {[wst |-> TRUE, rst |-> r, msec |-> m] :
             r \in BOOLEAN, m \in Exposures(h)}

\* the camera's replies to one set_binning: the binning write is rejected,
\* or it is accepted and the set_exposure_time that follows gets its replies
BinningReplies(h) ==
    {[bst |-> FALSE, rep |-> [wst |-> FALSE, rst |-> FALSE, msec |-> 0]]}
    \cup {[bst |-> TRUE, rep |-> r] : r \in ExposureReplies(h)}

\* ---------------------------------------------------------------- the machine
\* no acquire() is waiting in is_FreezeVideo; otherwise wait holds the colour
\* mode that acquire() read
Idle == <<>>

\* the effect of a call and its record
Record(op, args, r) ==
    /\ cam' = r.cam
    /\ hw' = r.hw
    /\ last' = [op |-> op, args |-> args, err |-> r.err, cmds |-> r.cmds,
                ret |-> r.ret, msg |-> r.msg]

\* a call of the session's one caller, who is not inside acquire()
Call(op, args, r) ==
    /\ wait = Idle
    /\ Record(op, args, r)
    /\ wait' = wait

Init ==
    /\ cam = [phase |-> "unopened", enabled |-> FALSE, sensor_shape |-> Unset,
              exposure_range |-> Unset, exposure_time |-> Unset]
    /\ \E rg \in ExposureRanges, sh \in SensorShapes :
          \E e \in rg[1] .. rg[2] :
             hw = [open |-> FALSE, standby |-> FALSE, sensor |-> sh,
                   range |-> <<ToMsec(rg[1]), ToMsec(rg[2])>>,
                   exposure |-> ToMsec(e), binning |-> 0]
    /\ last = [op |-> "none", args |-> <<>>, err |-> "ok", cmds |-> <<>>,
               ret |-> None, msg |-> ""]
    /\ wait = Idle

Construct ==
    /\ cam.phase = "unopened"
    /\ \E ist, sup1, st1, sup2, st2, sst \in BOOLEAN :
          LET r == init(cam, hw, ist, sup1, st1, sup2, st2, sst) IN
          Call("init", <<>>,
               IF r.err = "ok" THEN r ELSE [r EXCEPT !.cam.phase = "failed"])

Enable ==
    /\ cam.phase = "open"
    /\ \E sup, st \in BOOLEAN :
          Call("enable", <<>>, enable(cam, hw, sup, st))

Disable ==
    /\ cam.phase = "open"
    /\ \E sup, st \in BOOLEAN :
          Call("disable", <<>>, disable(cam, hw, sup, st))

ReadExposureCache ==
    /\ cam.phase = "open"
    /\ \E tst, rst \in BOOLEAN :
          Call("read_exposure_cache", <<>>,
               read_exposure_cache(cam, hw, tst, rst))

GetExposureTime ==
    /\ cam.phase = "open"
    /\ Call("get_exposure_time", <<>>, get_exposure_time(cam, hw))

SetExposureTime ==
    /\ cam.phase = "open"
    /\ \E value \in ExposureRequests, rep \in ExposureReplies(hw) :
          Call("set_exposure_time", <<value>>,
               set_exposure_time(cam, hw, value, rep))

GetBinning ==
    /\ cam.phase = "open"
    /\ Call("get_binning", <<>>, get_binning(cam, hw))

SetBinning ==
    /\ cam.phase = "open"
    /\ \E h_bin, v_bin \in BinningRequests, sup \in SupportedMasks,
          br \in BinningReplies(hw) :
          Call("set_binning", <<h_bin, v_bin>>,
               set_binning(cam, hw, h_bin, v_bin, sup, br.bst, br.rep))

\* acquire() up to its blocking call: it raises before it, or it has issued
\* is_FreezeVideo(IS_WAIT) and waits for the frame
Acquire ==
    /\ cam.phase = "open"
    /\ wait = Idle
    /\ \E cm \in ColorModes, ast, sst \in BOOLEAN :
          LET r == acquire(cam, hw, cm, ast, sst, TRUE) IN
          IF r.err = "ok"
          THEN /\ wait' = <<cm>>
               /\ Record("acquire", <<>>,
                         [r EXCEPT !.err = "blocked", !.ret = None,
                                   !.cmds = SubSeq(r.cmds, 1, Len(r.cmds) - 1)])
          ELSE /\ wait' = wait
               /\ Record("acquire", <<>>, r)

\* is_FreezeVideo returns with its status, and acquire() with it
CaptureEnds ==
    /\ wait # Idle
    /\ \E fst \in BOOLEAN :
          Record("acquire", <<>>, acquire(cam, hw, wait[1], TRUE, TRUE, fst))
    /\ wait' = Idle

\* abort(), which another thread may call while acquire() waits
Abort ==
    /\ cam.phase = "open"
    /\ Record("abort", <<>>, abort(cam, hw))
    /\ wait' = wait

\* the camera changes its exposure on its own, within its range
CameraAdjustsExposure ==
    /\ hw.open
    /\ \E m \in Exposures(hw) \ {hw.exposure} :
          /\ hw' = [hw EXCEPT !.exposure = m]
          /\ last' = [op |-> "camera", args |-> <<>>, err |-> "ok",
                      cmds |-> <<>>, ret |-> None, msg |-> ""]
    /\ UNCHANGED <<cam, wait>>

GetSensorTemperature ==
    /\ cam.phase = "open"
    /\ \E st \in BOOLEAN, bits \in TemperatureReadings :
          Call("get_sensor_temperature", <<bits>>,
               get_sensor_temperature(cam, hw, st, bits))

Shutdown ==
    /\ cam.phase = "open"
    /\ \E st \in BOOLEAN :
          Call("shutdown", <<>>, on_shutdown(cam, hw, st))

Next ==
    \/ Construct
    \/ Enable
    \/ Disable
    \/ ReadExposureCache
    \/ GetExposureTime
    \/ SetExposureTime
    \/ GetBinning
    \/ SetBinning
    \/ Acquire
    \/ CaptureEnds
    \/ Abort
    \/ CameraAdjustsExposure
    \/ GetSensorTemperature
    \/ Shutdown

Spec == Init /\ [][Next]_vars

\* ------------------------------------------------------------------ claims
\* the driver calls of the last operation with the given command
Issued(name) == {i \in DOMAIN last.cmds : last.cmds[i].cmd = name}

\* every driver call of the last operation succeeded
AllAccepted == \A i \in DOMAIN last.cmds : last.cmds[i].ok

\* the binning factors of the capability table, as the specification lists them
BinningFactors == {1, 2, 3, 4, 5, 6, 8, 16}

\* C1: every set_exposure_time(x) made while the device is Enabled, with an
\* ExposureRange whose min > 0 and a camera that rejects nothing, succeeds and
\* leaves the cached ExposureTime within [min, max].
C1_SetExposureSaturates ==
    (/\ last.op = "set_exposure_time"
     /\ cam.enabled /\ HwReady(hw)
     /\ cam.exposure_range # Unset
     /\ AllAccepted)
    => (\/ cam.exposure_range[1] <= 0
        \/ /\ last.err = "ok"
           /\ cam.exposure_time # Unset
           /\ cam.exposure_time[1] >= cam.exposure_range[1]
           /\ cam.exposure_time[1] <= cam.exposure_range[2])

\* C2: set_exposure_time never writes an exposure of exactly zero to the
\* camera (a clamp to zero fails before any write), and a clamp to a non-zero
\* value is written.
C2_ZeroNeverWritten ==
    (last.op = "set_exposure_time" /\ cam.exposure_range # Unset)
    => LET secs == clamp(last.args[1], cam.exposure_range) IN
       IF secs = 0
       THEN last.err # "ok" /\ last.cmds = <<>>
       ELSE /\ Issued("SET_EXPOSURE") # {}
            /\ \A i \in Issued("SET_EXPOSURE") :
                  last.cmds[i].data = ToMsec(secs)

\* C3: after a successful set_exposure_time the cached ExposureTime is the
\* value the camera reported on the read back that followed the write; when
\* the camera rejects the write the call fails and the cache keeps its value.
C3_CacheIsReadBack ==
    [][last'.op = "set_exposure_time" =>
        /\ last'.err = "ok" =>
              /\ Len(last'.cmds) = 2
              /\ last'.cmds[1].cmd = "SET_EXPOSURE"
              /\ last'.cmds[2].cmd = "GET_EXPOSURE"
              /\ cam'.exposure_time = <<ToSec(last'.cmds[2].data)>>
        /\ (\E i \in DOMAIN last'.cmds :
               last'.cmds[i].cmd = "SET_EXPOSURE" /\ ~last'.cmds[i].ok) =>
              /\ last'.err # "ok"
              /\ cam'.exposure_time = cam.exposure_time]_vars

\* a successful set_exposure_time whose read back differs from what it wrote
C3_Witness ==
    /\ last.op = "set_exposure_time"
    /\ last.err = "ok"
    /\ last.cmds[2].data # last.cmds[1].data
    /\ cam.exposure_time = <<ToSec(last.cmds[2].data)>>

\* C4: set_binning(h, v) with h or v outside the capability table fails with
\* the unsupported-binning-mode error (ValueError), issues no driver command
\* at all, and leaves the binning mode and the exposure cache as they were.
C4_TableMissRejected ==
    [][(/\ last'.op = "set_binning"
        /\ (\/ last'.args[1] \notin BinningFactors
            \/ last'.args[2] \notin BinningFactors)) =>
        /\ last'.err = "ValueError"
        /\ last'.cmds = <<>>
        /\ hw'.binning = hw.binning
        /\ cam'.exposure_time = cam.exposure_time]_vars

\* a set_binning turned down for its vertical factor alone
C4_Witness ==
    /\ last.op = "set_binning"
    /\ last.args[1] \in BinningFactors
    /\ last.args[2] \notin BinningFactors
    /\ last.err = "ValueError"

\* the bit pattern of a pair of the table: both factors' bits
PatternOf(h_bin, v_bin) ==
    BitOr(HORIZONTAL_BINNING_TO_BITS[h_bin], VERTICAL_BINNING_TO_BITS[v_bin])

\* C5: set_binning(h, v) with (h, v) in the table and a bit pattern that is
\* not within the supported-binning bitmask the camera reports fails with
\* the error of a table miss (ValueError) and issues no binning-set command.
C5_UnsupportedRejected ==
    (/\ last.op = "set_binning"
     /\ last.args[1] \in BinningFactors
     /\ last.args[2] \in BinningFactors
     /\ Issued("GET_SUPPORTED_BINNING") # {}
     /\ last.cmds[1].ok
     /\ BitAnd(last.cmds[1].data, PatternOf(last.args[1], last.args[2]))
           # PatternOf(last.args[1], last.args[2]))
    => (last.err = "ValueError" /\ Issued("SET_BINNING") = {})

\* C6: a set_binning whose binning-set command the camera accepted, made
\* with a cached exposure that is non-zero and within the range, writes that
\* cached exposure to the camera exactly once, after the binning-set, and,
\* the camera rejecting nothing, completes successfully.
C6_BinningReappliesExposure ==
    [][(/\ last'.op = "set_binning"
        /\ \E i \in DOMAIN last'.cmds :
              last'.cmds[i].cmd = "SET_BINNING" /\ last'.cmds[i].ok
        /\ \A i \in DOMAIN last'.cmds : last'.cmds[i].ok
        /\ cam.exposure_time # Unset /\ cam.exposure_range # Unset
        /\ cam.exposure_time[1] # 0
        /\ cam.exposure_time[1] >= cam.exposure_range[1]
        /\ cam.exposure_time[1] <= cam.exposure_range[2]) =>
        /\ last'.err = "ok"
        /\ Cardinality({i \in DOMAIN last'.cmds :
                           last'.cmds[i].cmd = "SET_EXPOSURE"}) = 1
        /\ \A i, j \in DOMAIN last'.cmds :
              (last'.cmds[i].cmd = "SET_BINNING"
               /\ last'.cmds[j].cmd = "SET_EXPOSURE") =>
                  (i < j /\ last'.cmds[j].data = ToMsec(cam.exposure_time[1]))
       ]_vars

\* the configuration and acquisition calls
ConfigOps ==
    {"get_exposure_time", "set_exposure_time", "get_binning", "set_binning",
     "acquire"}

\* C7: a disable() followed by an enable() the camera accepts leaves the
\* session Enabled, and every configuration or acquisition call made while
\* the session is in Standby fails and changes nothing of the session.
C7_StandbyRejects ==
    [][/\ (/\ last.op = "disable" /\ last.err = "ok"
           /\ last'.op = "enable"
           /\ \A i \in DOMAIN last'.cmds : last'.cmds[i].ok) => cam'.enabled
       /\ (/\ cam.phase = "open" /\ hw.open /\ ~cam.enabled
           /\ last'.op \in ConfigOps) =>
              (last'.err # "ok" /\ cam' = cam)]_vars

\* C8: an acquire() all of whose driver calls succeeded returns a buffer of
\* the SensorShape read at session start, with 8-bit elements when the pixel
\* depth is 8 and 16-bit elements otherwise.
C8_AcquireReturnsFrame ==
    (last.op = "acquire" /\ last.err = "ok")
    => last.ret = <<[shape |-> cam.sensor_shape,
                     bits |-> IF COLORMODE_TO_N_BITS[last.cmds[1].data] = 8
                              THEN 8 ELSE 16]>>

\* sign * (integerPart + fractionalPart / 16) in sixteenths, integerPart the
\* 7 bits 10..4, fractionalPart the bits 3..0, sign -1 iff bit 15 is set
PackedTemperature(bits) ==
    LET sign == IF (bits \div Pow2(15)) % 2 = 1 THEN -1 ELSE 1
        integerPart == (bits \div Pow2(4)) % Pow2(7)
        fractionalPart == bits % Pow2(4) IN
    sign * (integerPart * 16 + fractionalPart)

\* C9: the temperature a successful get_sensor_temperature returns for the
\* packed reading b is sign * (integerPart + fractionalPart / 16).
C9_TemperatureDecode ==
    (last.op = "get_sensor_temperature" /\ last.err = "ok")
    => last.ret = PackedTemperature(last.args[1])

\* the flag after a power transition that is bound for `target`: it needs the
\* support query answered yes and the standby command `name` accepted
PowerStep(target, name) ==
    /\ Len(last'.cmds) >= 1
    /\ last'.cmds[1].cmd = "STANDBY_SUPPORTED"
    /\ IF ~last'.cmds[1].ok
       THEN /\ last'.err = "RuntimeError"
            /\ Len(last'.cmds) = 1
            /\ cam'.enabled = cam.enabled
       ELSE /\ Len(last'.cmds) = 2
            /\ last'.cmds[2].cmd = name
            /\ IF last'.cmds[2].ok
               THEN last'.err = "ok" /\ cam'.enabled = target
               ELSE last'.err = "RuntimeError" /\ cam'.enabled = cam.enabled

\* C10: disable() first asks whether standby is supported; unsupported, it
\* fails without a standby-enter command; supported and accepted, the
\* session is in Standby; supported and rejected, it fails and the power
\* state is as before.  enable() does the same with the standby-exit command.
C10_PowerTransitions ==
    [][/\ last'.op = "disable" => PowerStep(FALSE, "STANDBY_ENTER")
       /\ last'.op = "enable" => PowerStep(TRUE, "STANDBY_EXIT")]_vars

\* a disable() of an Enabled session that the camera rejected
C10_Witness ==
    /\ last.op = "disable"
    /\ Len(last.cmds) = 2
    /\ ~last.cmds[2].ok
    /\ last.err = "RuntimeError"
    /\ cam.enabled

\* the operations of a session that use the camera
SessionOps ==
    {"enable", "disable", "get_exposure_time", "set_exposure_time",
     "get_binning", "set_binning", "acquire", "get_sensor_temperature"}

\* C11: once the session is shut down, every operation on it fails, issues
\* no driver command with the closed handle, and the session has no power
\* state any more (it is never Enabled again).
C11_ShutdownIsFinal ==
    (cam.phase = "open" /\ ~hw.open /\ last.op \in SessionOps)
    => (last.err # "ok" /\ last.cmds = <<>> /\ ~cam.enabled)

\* C12: abort() cancels: with no capture begun it issues the stop command,
\* with an acquire() waiting in the blocking capture it issues a forced
\* trigger (which is what lets the waiting acquire() return).
C12_AbortCancels ==
    last.op = "abort"
    => IF wait = Idle
       THEN Issued("STOP_LIVE_VIDEO") # {}
       ELSE Issued("FORCE_TRIGGER") # {}

\* the driver calls of acquire(), in their order
AcquireOrder ==
    <<"GET_COLOR_MODE", "ALLOC_IMAGE_MEM", "SET_IMAGE_MEM", "FREEZE_VIDEO">>

\* the steps of acquire() after the colour-mode query
LaterSteps == {"ALLOC_IMAGE_MEM", "SET_IMAGE_MEM", "FREEZE_VIDEO"}

\* the record l is of an acquire() that failed at the driver call `step`
FailedAt(l, step) ==
    /\ l.op = "acquire"
    /\ l.err \notin {"ok", "blocked"}
    /\ Len(l.cmds) >= 1
    /\ l.cmds[Len(l.cmds)].cmd = step
    /\ ~l.cmds[Len(l.cmds)].ok

\* the record l is of an acquire() that failed on a colour mode the camera
\* reported and the table does not have
UnknownMode(l) ==
    /\ l.op = "acquire"
    /\ Len(l.cmds) >= 1
    /\ l.cmds[1].cmd = "GET_COLOR_MODE"
    /\ l.cmds[1].ok
    /\ l.cmds[1].data \notin DOMAIN COLORMODE_TO_N_BITS

\* acquire() issues its driver calls in the fixed order, each at most once,
\* none after one that failed, and fails when one fails
AcquireInOrder ==
    last.op = "acquire" =>
        /\ Len(last.cmds) >= 1 /\ Len(last.cmds) <= Len(AcquireOrder)
        /\ \A i \in DOMAIN last.cmds :
              /\ last.cmds[i].cmd = AcquireOrder[i]
              /\ i < Len(last.cmds) => last.cmds[i].ok
        /\ last.err = "ok" <=> (Len(last.cmds) = Len(AcquireOrder) /\ AllAccepted)
        /\ last.err = "blocked" =>
              (Len(last.cmds) = Len(AcquireOrder) - 1 /\ AllAccepted
               /\ wait # Idle)

\* C13 as stated: the order holds, and two acquire() calls that fail at
\* different steps (allocation, bind, capture) fail with different error kinds.
C13_StepsHaveOwnKinds ==
    /\ []AcquireInOrder
    /\ [][\A a, b \in LaterSteps :
            (a # b /\ FailedAt(last, a) /\ FailedAt(last', b))
            => last.err # last'.err]_vars

\* C13, amended: the order holds, and two acquire() calls that fail at
\* different steps both raise RuntimeError, with different messages.
C13_StepsHaveOwnMessages ==
    /\ []AcquireInOrder
    /\ [][\A a, b \in LaterSteps :
            (a # b /\ FailedAt(last, a) /\ FailedAt(last', b))
            => /\ last.err = "RuntimeError" /\ last'.err = "RuntimeError"
               /\ last.msg # last'.msg]_vars

\* an acquire() that failed at the bind, the capture never issued
C13_Witness ==
    /\ FailedAt(last, "SET_IMAGE_MEM")
    /\ Issued("FREEZE_VIDEO") = {}
    /\ last.msg = acquire_message("SET_IMAGE_MEM")

\* C14: the binning value set_binning writes to the camera for a pair (h, v)
\* of the table is the bitwise OR of the two factors' bit patterns.
C14_BinningIsOr ==
    (/\ last.op = "set_binning"
     /\ last.args[1] \in BinningFactors
     /\ last.args[2] \in BinningFactors)
    => \A i \in Issued("SET_BINNING") :
          last.cmds[i].data = PatternOf(last.args[1], last.args[2])

\* C15: enable() on an Enabled session and disable() on a session in Standby
\* do not fail and leave the power state as it is, whatever the camera
\* answers.
C15_TargetStateNoOp ==
    [][(/\ cam.phase = "open" /\ hw.open
        /\ \/ cam.enabled /\ last'.op = "enable"
           \/ ~cam.enabled /\ last'.op = "disable")
       => (last'.err = "ok" /\ cam'.enabled = cam.enabled)]_vars

\* C16: a session start whose InitCamera succeeded, on a camera that rejects
\* no command, ends with the session open and Enabled, whether or not the
\* camera supports standby.
C16_StartsEnabled ==
    (/\ last.op = "init"
     /\ last.cmds[1].ok
     /\ \A i \in DOMAIN last.cmds :
           last.cmds[i].cmd # "STANDBY_SUPPORTED" => last.cmds[i].ok)
    => (cam.phase = "open" /\ cam.enabled /\ ~hw.standby)

C18_GetReturnsCache ==
    [][/\ last'.op = "get_exposure_time" =>
            /\ last'.cmds = <<>>
            /\ cam' = cam /\ hw' = hw
            /\ cam.exposure_time # Unset =>
                  (last'.err = "ok" /\ last'.ret = cam.exposure_time[1])
       /\ cam'.exposure_time # cam.exposure_time =>
            last'.op \in {"set_exposure_time", "set_binning",
                          "read_exposure_cache"}]_vars

\* a get_exposure_time that returned a cache the camera's exposure has left
C18_Witness ==
    /\ last.op = "get_exposure_time"
    /\ last.err = "ok"
    /\ HwReady(hw)
    /\ ToMsec(last.ret) # hw.exposure

\* C19: on a started session the enabled flag is true exactly when the
\* camera is not in standby, also after enable() and disable() calls that
\* failed.
C19_FlagTracksStandby ==
    cam.phase = "open" => (cam.enabled <=> ~hw.standby)

\* an enable() that the camera rejected, the session staying in Standby
C19_Witness ==
    /\ last.op = "enable"
    /\ last.err # "ok"
    /\ hw.open /\ hw.standby
    /\ ~cam.enabled

\* C20: after a successful set_binning(h, v), for a pair (h, v) of the table
\* whose bit pattern is within the supported-binning bitmask the camera
\* reported, the camera holds a binning value that get_binning decodes to
\* (h, v).
C20_BinningRoundTrip ==
    (/\ last.op = "set_binning" /\ last.err = "ok"
     /\ last.cmds[1].cmd = "GET_SUPPORTED_BINNING"
     /\ BitAnd(last.cmds[1].data, PatternOf(last.args[1], last.args[2]))
           = PatternOf(last.args[1], last.args[2]))
    => get_binning(cam, hw).ret = <<last.args[1], last.args[2]>>

\* C21: right after a successful session start the exposure cache and the
\* exposure range are filled from the camera: get_exposure_time returns a
\* value within the range, and a first set_exposure_time or set_binning does
\* not fail for want of the cache or the range.
C21_StartFillsExposure ==
    (last.op = "init" /\ last.err = "ok")
    => /\ cam.exposure_time # Unset
       /\ cam.exposure_range # Unset
       /\ get_exposure_time(cam, hw).err = "ok"
       /\ get_exposure_time(cam, hw).ret >= cam.exposure_range[1]
       /\ get_exposure_time(cam, hw).ret <= cam.exposure_range[2]
       /\ \A value \in ExposureRequests, rep \in ExposureReplies(hw) :
             set_exposure_time(cam, hw, value, rep).err # "AttributeError"
       /\ \A b1, b2 \in BinningRequests, sm \in SupportedMasks,
             br \in BinningReplies(hw) :
             set_binning(cam, hw, b1, b2, sm, br.bst, br.rep).err
                # "AttributeError"

====
